---- MODULE Spec2Model ----
(***************************************************************************)
(* citifier.py: go through a primary book, look every word of it up in a   *)
(* corpus of other books, and attach a citation number to the word.        *)
(*                                                                         *)
(* Strings are sequences of one-character strings.  A file's content is a  *)
(* record [ok, text]: ok = FALSE stands for bytes that cp1252 cannot       *)
(* decode (codecs raises UnicodeDecodeError on read).                      *)
(***************************************************************************)
EXTENDS Integers, Sequences, FiniteSets, TLC

\* ------------------------------------------------------------- bounds ----
\* number of blank-separated words of the primary text
MaxWords == 3
\* largest value of --number that is tried
MaxNumber == 2

\* ------------------------------------------------------- characters ----
Space == " "
LowerLetters == {"a", "b", "r", "e", "f"}
UpperLetters == {"A", "B", "R", "E", "F"}
Digits == {"0", "1", "2", "3", "4", "5", "6", "7", "8", "9"}
\* what strip_punc takes off the ends of a token
Punctuation == {"-", "*"}

\* \w of the re module
WordChars == LowerLetters \cup UpperLetters \cup Digits \cup {"_"}

IsWordChar(c) == c \in WordChars

\* str.lower on one character
LowerChar(c) ==
  CASE c = "A" -> "a"
    [] c = "B" -> "b"
    [] c = "R" -> "r"
    [] c = "E" -> "e"
    [] c = "F" -> "f"
    [] OTHER -> c

\* str.lower
Lower(s) == [i \in 1..Len(s) |-> LowerChar(s[i])]

\* "x" in s
Contains(s, c) == \E i \in 1..Len(s) : s[i] = c

\* str(n) for n >= 0
DigitOf(d) ==
  CASE d = 0 -> "0" [] d = 1 -> "1" [] d = 2 -> "2" [] d = 3 -> "3"
    [] d = 4 -> "4" [] d = 5 -> "5" [] d = 6 -> "6" [] d = 7 -> "7"
    [] d = 8 -> "8" [] OTHER -> "9"

RECURSIVE Str(_)
Str(n) == IF n < 10 THEN <<DigitOf(n)>> ELSE Str(n \div 10) \o <<DigitOf(n % 10)>>

RECURSIVE Join(_, _)
\* sep.join(list of strings)
Join(parts, sep) ==
  IF Len(parts) = 0 THEN <<>>
  ELSE IF Len(parts) = 1 THEN parts[1]
  ELSE parts[1] \o sep \o Join(Tail(parts), sep)

\* ---------------------------------------------------- tokenization ----
\* TextBlob(text).words.lower(): the tokens are the blank-separated runs of
\* the text with the punctuation stripped from both ends, empty ones dropped
\* (a hyphen or an asterisk inside a run stays in the token, as in the
\* "START**THE" of line 197).  A span <<i, j>> is the place of one token.

\* i..j lies in one blank-separated run of text
InRun(text, i, j) == \A k \in i..j : text[k] # Space

\* nothing but stripped punctuation lies between the start of i's run and i
TokenStart(text, i) ==
  /\ text[i] \notin Punctuation \cup {Space}
  /\ \A k \in 1..(i - 1) : InRun(text, k, i) => text[k] \in Punctuation

TokenEnd(text, j) ==
  /\ text[j] \notin Punctuation \cup {Space}
  /\ \A k \in (j + 1)..Len(text) : InRun(text, j, k) => text[k] \in Punctuation

TokenSpans(text) ==
  { s \in { <<i, j>> : i \in { i \in 1..Len(text) : TokenStart(text, i) },
                       j \in { j \in 1..Len(text) : TokenEnd(text, j) } } :
      s[1] <= s[2] /\ InRun(text, s[1], s[2]) }

Words(text) == { Lower(SubSeq(text, s[1], s[2])) : s \in TokenSpans(text) }

\* ------------------------------------------------------------ regex ----
\* \b at the gap before position p of text (p in 1..Len(text)+1)
Boundary(text, p) ==
  LET before == p > 1 /\ IsWordChar(text[p - 1])
      after == p <= Len(text) /\ IsWordChar(text[p])
  IN before # after

\* rf"\b({word})\b" with re.IGNORECASE matches text at position i.  The words
\* that reach the pattern hold letters, digits and "-", which the pattern
\* takes literally.
MatchAt(word, text, i) ==
  /\ i + Len(word) - 1 <= Len(text)
  /\ Boundary(text, i)
  /\ Boundary(text, i + Len(word))
  /\ \A k \in 1..Len(word) : LowerChar(text[i + k - 1]) = LowerChar(word[k])

RECURSIVE Leftmost(_, _)
\* re.sub scans from the left and resumes after each match: of the matches
\* starting at starts, each n long, those it replaces
Leftmost(starts, n) ==
  IF starts = {} THEN {}
  ELSE LET i == CHOOSE x \in starts : \A y \in starts : x <= y
       IN {i} \cup Leftmost({ j \in starts : j >= i + n }, n)

\* the last positions of the matches of word that re.sub replaces in text
MatchEnds(word, text) ==
  { i + Len(word) - 1 :
      i \in Leftmost({ i \in 1..Len(text) : MatchAt(word, text, i) }, Len(word)) }

RECURSIVE InsertAfter(_, _, _)
\* seq with ins put after each position of ends
InsertAfter(seq, ends, ins) ==
  IF ends = {} THEN seq
  ELSE LET e == CHOOSE x \in ends : \A y \in ends : y <= x
       IN InsertAfter(SubSeq(seq, 1, e), ends \ {e}, ins) \o ins
            \o SubSeq(seq, e + 1, Len(seq))

\* the sentinel-delimited marker REF<n>REF
Marker(n) == <<"R", "E", "F">> \o Str(n) \o <<"R", "E", "F">>

\* re.sub(rf"\b({word})\b", rf"\1REF{n}REF", text, flags=re.IGNORECASE)
SubWord(word, n, text) ==
  InsertAfter(text, MatchEnds(word, text), Marker(n))

\* length of the match of REF(\d+)REF at position i, 0 when there is none
RefLenAt(text, i) ==
  LET IsRef(p) == /\ p + 2 <= Len(text)
                  /\ text[p] = "R" /\ text[p + 1] = "E" /\ text[p + 2] = "F"
      ds == { n \in 1..Len(text) :
                /\ i + 2 + n <= Len(text)
                /\ \A k \in 1..n : text[i + 2 + k] \in Digits }
      \* \d+ is greedy and does not give back: REF never starts with a digit
      n == IF ds = {} THEN 0 ELSE CHOOSE m \in ds : \A o \in ds : o <= m
  IN IF IsRef(i) /\ n > 0 /\ IsRef(i + 3 + n) THEN n + 6 ELSE 0

RECURSIVE RefStarts(_, _)
\* where the matches of REF(\d+)REF that re.sub replaces start, from i on
RefStarts(text, i) ==
  LET starts == { j \in i..Len(text) : RefLenAt(text, j) > 0 }
  IN IF starts = {} THEN {}
     ELSE LET j == CHOOSE x \in starts : \A y \in starts : x <= y
          IN {j} \cup RefStarts(text, j + RefLenAt(text, j))

RECURSIVE Retag(_, _, _, _, _)
\* seq, which runs parallel to text, with each match that starts at one of
\* starts turned into open, the group, close
Retag(text, seq, starts, open, close) ==
  IF starts = {} THEN seq
  ELSE LET j == CHOOSE x \in starts : \A y \in starts : y <= x
           n == RefLenAt(text, j)
       IN Retag(text, SubSeq(seq, 1, j - 1), starts \ {j}, open, close)
            \o open \o SubSeq(seq, j + 3, j + n - 4) \o close
            \o SubSeq(seq, j + n, Len(seq))

\* the substitution with count=1: only the first marker becomes a tag
SubRefOnce(text) ==
  LET starts == RefStarts(text, 1)
  IN Retag(text, text,
           { j \in starts : \A k \in starts : j <= k },
           <<"<", "r", ">">>, <<"<", "/", "r", ">">>)

\* re.sub(rf"REF(\d+)REF", rf"<r>\1</r>", text)
SubRef(text) ==
  Retag(text, text, RefStarts(text, 1), <<"<", "r", ">">>, <<"<", "/", "r", ">">>)

\* ------------------------------------------------------ file system ----
\* A path is the sequence of its components; the corpus lives under PG.
InFile == <<"moby.txt">>

CorpusPaths ==
  { <<"PG", "d0", "x.txt">>, <<"PG", "d1", "x.txt">>,
    <<"PG", "d0", "y.txt">>, <<"PG", "d1", "z.txt">> }

Decoded(text) == [ok |-> TRUE, text |-> text]
Undecodable == [ok |-> FALSE, text |-> <<>>]

\* what is on disk under PG
CorpusContent(path) ==
  CASE path = <<"PG", "d0", "x.txt">> -> Decoded(<<"a">>)
    [] path = <<"PG", "d1", "x.txt">> -> Decoded(<<"a", "-", "b">>)
    [] path = <<"PG", "d0", "y.txt">> ->
         Decoded(<<"A", " ", "a", "-", "b", " ", "R", "E", "F", "1">>)
    [] OTHER -> Undecodable

\* os.path.split(path): <<head, tail>>
Split(path) ==
  IF Len(path) = 0 THEN << <<>>, "" >>
  ELSE <<SubSeq(path, 1, Len(path) - 1), path[Len(path)]>>

IsPrefix(p, s) == Len(p) <= Len(s) /\ SubSeq(s, 1, Len(p)) = p

\* fnmatch of a file name against the patterns in use
FnMatch(name, pattern) == pattern = "*.txt" \/ name = pattern

\* all orders of the elements of a finite set
Orders(S) ==
  { f \in [1..Cardinality(S) -> S] : \A i, j \in 1..Cardinality(S) :
      f[i] = f[j] => i = j }

\* recursive_find(inspec): the files below the head of inspec whose name
\* matches its tail, in the order os.walk meets them (any order).  An empty
\* head stands for ".", which also holds the primary file.
recursive_find(inspec) ==
  LET head == Split(inspec)[1]
      tail == Split(inspec)[2]
      below == { p \in CorpusPaths \cup {InFile} :
                   (Len(head) = 0 \/ IsPrefix(head, Split(p)[1])) }
  IN Orders({ p \in below : FnMatch(Split(p)[2], tail) })

\* random.sample(files, k): k different positions of files, in any order
Sample(files, k) ==
  { [i \in 1..k |-> files[f[i]]] :
      f \in { g \in [1..k -> 1..Len(files)] :
                \A i, j \in 1..k : g[i] = g[j] => i = j } }

\* the permutations of 1..n, for the sizes a corpus can have
Rearrangements ==
  [n \in 0..Cardinality(CorpusPaths) |->
     UNION { {g} : g \in { h \in [1..n -> 1..n] :
                             \A i, j \in 1..n : h[i] = h[j] => i = j } }]

\* no shuffle: the books stay in the order they have
NoShuffle(books) == {books}

\* random.shuffle(books): any order of the same books
Shuffle(books) ==
  { [i \in 1..Len(books) |-> books[f[i]]] : f \in Rearrangements[Len(books)] }

\* Book.text(): the decoded content, or the UnicodeDecodeError
\* Book(filename): the decode error leaves an empty text
Book(path, content) ==
  [ fullpath |-> path,
    filename |-> Split(path)[2],
    set |-> Words(IF content.ok THEN content.text ELSE <<>>) ]

\* the BOOKS_CACHE file: absent, or the pickled list of books
NoCache == [present |-> FALSE, data |-> <<>>]
Cached(list) == [present |-> TRUE, data |-> list]

\* an optional list: None, or a list
None == [some |-> FALSE, list |-> <<>>]
Some(list) == [some |-> TRUE, list |-> list]

\* load_cache(filename)
load_cache(file) == IF file.present THEN Some(file.data) ELSE None

\* `not books`: None and the empty list are both false
Not(books) == ~books.some \/ Len(books.list) = 0

\* --------------------------------------------------------- metadata ----
\* the rows of master_list.csv by their Text column, as load_metadata keeps them
Row(fn, ln, title, subtitle) ==
  [f \in {"Author-FN", "Author-LN", "Title", "Subtitle"} |->
     CASE f = "Author-FN" -> fn
       [] f = "Author-LN" -> ln
       [] f = "Title" -> title
       [] OTHER -> subtitle]

MasterList ==
  [n \in {"moby.txt", "x.txt", "y.txt", "z.txt"} |->
     CASE n = "moby.txt" -> Row(<<"H">>, <<"M", " ">>, <<"W">>, <<>>)
       [] n = "x.txt" -> Row(<<" ", "A">>, <<"B">>, <<"T">>, <<" ", "S">>)
       [] n = "y.txt" -> Row(<<>>, <<"C", " ">>, <<"U">>, <<>>)
       [] OTHER -> Row(<<"D">>, <<"E">>, <<"V">>, <<>>)]

\* load_metadata() of a master list that holds the rows of keys
load_metadata(keys) == [n \in keys |-> MasterList[n]]

RECURSIVE LStrip(_)
LStrip(s) == IF Len(s) > 0 /\ s[1] = Space THEN LStrip(Tail(s)) ELSE s

RECURSIVE RStrip(_)
RStrip(s) ==
  IF Len(s) > 0 /\ s[Len(s)] = Space THEN RStrip(SubSeq(s, 1, Len(s) - 1)) ELSE s

\* str.strip
Strip(s) == LStrip(RStrip(s))

UnknownAuthor == <<"[", "Unknown author", "]">>

\* make_cites with the title's fallback left empty
CiteNoTitle(i, id, metadata) ==
  LET known == id \in DOMAIN metadata
      author ==
        IF known
        THEN Strip(metadata[id]["Author-LN"])
               \o (IF Len(metadata[id]["Author-FN"]) > 0
                   THEN <<",", " ">> \o Strip(metadata[id]["Author-FN"])
                   ELSE <<>>)
        ELSE UnknownAuthor
      title == IF known THEN metadata[id]["Title"] ELSE <<>>
  IN <<"<r>">> \o Str(i + 1) \o <<"</r>", " ">> \o author
       \o <<",", " ", "<i>">> \o title \o <<"</i>">>

\* one pass of the loop of make_cites: the reference of the i-th citation
\* (i counts from 0, as enumerate does)
Cite(i, id, metadata) ==
  LET known == id \in DOMAIN metadata
      author ==
        IF known
        THEN Strip(metadata[id]["Author-LN"])
               \o (IF Len(metadata[id]["Author-FN"]) > 0
                   THEN <<",", " ">> \o Strip(metadata[id]["Author-FN"])
                   ELSE <<>>)
        ELSE UnknownAuthor
      title ==
        IF known
        THEN metadata[id]["Title"]
               \o (IF Len(metadata[id]["Subtitle"]) > 0
                   THEN <<":", " ">> \o Strip(metadata[id]["Subtitle"])
                   ELSE <<>>)
        ELSE <<"[", id, "]">>
  IN <<"<r>">> \o Str(i + 1) \o <<"</r>", " ">> \o author
       \o <<",", " ", "<i>">> \o title \o <<"</i>">>

\* make_cites(cite_filenames, metadata)
make_cites(cite_filenames, metadata) ==
  [k \in 1..Len(cite_filenames) |-> Cite(k - 1, cite_filenames[k], metadata)]

\* one pass of the loop of get_coauthors
Coauthor(id, metadata) ==
  IF id \in DOMAIN metadata
  THEN (IF Len(metadata[id]["Author-FN"]) > 0
        THEN Strip(metadata[id]["Author-FN"]) \o <<" ">>
        ELSE <<>>)
         \o Strip(metadata[id]["Author-LN"])
  ELSE UnknownAuthor

\* get_coauthors with out seeded with the placeholder instead of set()
get_coauthorsSeeded(cite_filenames, metadata) ==
  {UnknownAuthor} \cup { Coauthor(cite_filenames[k], metadata) : k \in 1..Len(cite_filenames) }

\* get_coauthors(cite_filenames, metadata), before list() puts it in an order
get_coauthors(cite_filenames, metadata) ==
  { Coauthor(cite_filenames[k], metadata) : k \in 1..Len(cite_filenames) }

\* ------------------------------------------------------------ state ----
VARIABLES
  infile_content,  \* what is on disk at infile1
  inspec,          \* --inspec
  total_books,     \* --number
  use_cache,       \* --cache
  master_keys,     \* the Text column of master_list.csv
  cache_file,      \* the file at BOOKS_CACHE
  pc,              \* where main is
  fault,           \* the exception that ended main, "" when none
  metadata, book1, books, book1_text, done, cite_filenames,
  todo,            \* the words of list(book1.set) the loop has not reached
  output,          \* what was written to output.html
  loader,          \* history: what lines 177-185 did
  hits,            \* history: the matches of line 210, in order
  origin           \* history: for each character of book1_text its position
                   \* in the text as read, 0 for an inserted character

vars ==
  <<infile_content, inspec, total_books, use_cache, master_keys, cache_file,
    pc, fault, metadata, book1, books, book1_text, done, cite_filenames,
    todo, output, loader, hits, origin>>

inputs == <<infile_content, inspec, total_books, use_cache, master_keys>>

\* ----------------------------------------------------------- inputs ----
Chunks ==
  { <<"a">>, <<"A">>, <<"a", "-", "b">>, <<"a", "*", "b">>,
    <<"R", "E", "F", "1">> }

\* the texts of at most n blank-separated chunks
Texts(n) ==
  { Join(cs, <<Space>>) : cs \in UNION { [1..k -> Chunks] : k \in 0..n } }

\* values of --inspec: one directory, one name in every directory, no match
Inspecs ==
  { <<"PG", "d0", "*.txt">>, <<"PG", "d1", "*.txt">>, <<"x.txt">>,
    <<"PG", "q.txt">> }

\* the whole corpus
AllBooks == <<"PG", "*.txt">>

FileNames == {"moby.txt", "x.txt", "y.txt", "z.txt"}

\* what an earlier run can have left at BOOKS_CACHE
Caches ==
  { NoCache,
    Cached(<<>>),
    Cached(<<Book(<<"PG", "d0", "y.txt">>, CorpusContent(<<"PG", "d0", "y.txt">>)),
             Book(<<"PG", "d1", "x.txt">>, CorpusContent(<<"PG", "d1", "x.txt">>))>>) }

Content(path) == IF path = InFile THEN infile_content ELSE CorpusContent(path)

Start ==
  /\ pc = "start"
  /\ fault = ""
  /\ metadata = <<>>
  /\ book1 = Book(InFile, Undecodable)
  /\ books = <<>>
  /\ book1_text = <<>>
  /\ done = {}
  /\ cite_filenames = <<>>
  /\ todo = {}
  /\ output = None
  /\ loader = [scanned |-> FALSE, sampled |-> FALSE, saved |-> FALSE]
  /\ hits = <<>>
  /\ origin = <<>>

\* the primary text of the runs that vary something else
PlainText == <<"a", " ", "A", "-", "b">>

\* runs over the primary texts, without cache
InitAnnotate ==
  /\ infile_content \in { Decoded(t) : t \in Texts(MaxWords) }
  /\ inspec \in Inspecs
  /\ total_books = 0
  /\ use_cache = FALSE
  /\ master_keys = FileNames
  /\ cache_file = NoCache

\* runs over the loader's parameters
InitLoad ==
  /\ infile_content \in {Decoded(PlainText), Undecodable}
  /\ inspec \in Inspecs \cup {AllBooks}
  /\ total_books \in 0..MaxNumber
  /\ use_cache \in BOOLEAN
  /\ master_keys = FileNames
  /\ cache_file \in Caches

\* runs over the master list
InitRender ==
  /\ infile_content = Decoded(PlainText)
  /\ inspec \in Inspecs
  /\ total_books = 0
  /\ use_cache = FALSE
  /\ master_keys \in SUBSET FileNames
  /\ cache_file = NoCache

Init == Start /\ (InitAnnotate \/ InitLoad \/ InitRender)

\* ---------------------------------------------------------- actions ----
Raise(e) ==
  /\ pc' = "fault"
  /\ fault' = e

Min(a, b) == IF a < b THEN a ELSE b

\* main, lines 168-174
Open ==
  /\ pc = "start"
  /\ metadata' = load_metadata(master_keys)
  /\ book1' = Book(InFile, infile_content)
  /\ pc' = "books"
  /\ UNCHANGED <<inputs, cache_file, fault, books, book1_text, done,
                 cite_filenames, todo, output, loader, hits, origin>>

\* main, lines 176-185
LoadBooks ==
  /\ pc = "books"
  /\ LET cached == IF use_cache THEN load_cache(cache_file) ELSE None
     IN IF ~Not(cached)
        THEN /\ books' = cached.list
             /\ UNCHANGED <<cache_file, loader>>
        ELSE \E found \in recursive_find(inspec) :
               \E files \in (IF total_books > 0
                             THEN Sample(found, Min(total_books, Len(found)))
                             ELSE {found}) :
                 /\ books' = [i \in 1..Len(files) |-> Book(files[i], Content(files[i]))]
                 /\ cache_file' = IF use_cache THEN Cached(books') ELSE cache_file
                 /\ loader' = [scanned |-> TRUE, sampled |-> total_books > 0,
                               saved |-> use_cache]
  /\ pc' = "text"
  /\ UNCHANGED <<inputs, fault, metadata, book1, book1_text, done,
                 cite_filenames, todo, output, hits, origin>>

\* main, lines 187-192: book1.text() is read again, outside any try
ReadText ==
  /\ pc = "text"
  /\ IF infile_content.ok
     THEN /\ book1_text' = infile_content.text
          /\ origin' = [i \in 1..Len(infile_content.text) |-> i]
          /\ done' = {}
          /\ cite_filenames' = <<>>
          /\ todo' = book1.set
          /\ pc' = "citify"
          /\ UNCHANGED fault
     ELSE /\ Raise("UnicodeDecodeError")
          /\ UNCHANGED <<book1_text, origin, done, cite_filenames, todo>>
  /\ UNCHANGED <<inputs, cache_file, metadata, book1, books, output, loader, hits>>

\* the position of the first book of list whose set holds word, 0 when none
FirstWith(list, word) ==
  IF \E i \in 1..Len(list) : word \in list[i].set
  THEN CHOOSE i \in 1..Len(list) :
         /\ word \in list[i].set
         /\ \A j \in 1..(i - 1) : word \notin list[j].set
  ELSE 0

\* lines 212-213 without the test of line 212
AddCiteAlways(list, filename) == Append(list, filename)

\* lines 212-213
AddCite(list, filename) ==
  IF \E k \in 1..Len(list) : list[k] = filename THEN list ELSE Append(list, filename)

\* cite_filenames.index(filename) + 1
CiteNumber(list, filename) ==
  (CHOOSE k \in 1..Len(list) :
     list[k] = filename /\ \A j \in 1..(k - 1) : list[j] # filename) - 1 + 1

\* one pass of the loop of lines 192-222 for word, books shuffled into shuffled
Pass(word, shuffled) ==
  /\ todo' = todo \ {word}
  /\ IF Lower(word) \in done \/ Contains(word, "*")
     THEN UNCHANGED <<done, books, cite_filenames, book1_text, origin, hits>>
     ELSE /\ done' = done \cup {Lower(word)}
          /\ books' = shuffled
          /\ LET at == FirstWith(shuffled, Lower(word))
             IN IF at = 0
                THEN UNCHANGED <<cite_filenames, book1_text, origin, hits>>
                ELSE LET book2 == shuffled[at]
                         cites == AddCite(cite_filenames, book2.filename)
                         n == CiteNumber(cites, book2.filename)
                         ends == MatchEnds(word, book1_text)
                     IN /\ cite_filenames' = cites
                        /\ book1_text' = SubWord(word, n, book1_text)
                        /\ origin' = InsertAfter(origin, ends,
                                                 [i \in 1..Len(Marker(n)) |-> 0])
                        /\ hits' = Append(hits,
                                     [word |-> word, fullpath |-> book2.fullpath,
                                      filename |-> book2.filename, number |-> n])

\* main, lines 192-222: one word of list(book1.set)
ProcessWord ==
  /\ pc = "citify"
  /\ \E word \in todo : \E shuffled \in Shuffle(books) : Pass(word, shuffled)
  /\ UNCHANGED <<inputs, cache_file, pc, fault, metadata, book1, output, loader>>

\* main, lines 224-230, once the loop has run out of words
Convert ==
  /\ pc = "citify"
  /\ todo = {}
  /\ book1_text' = SubRef(book1_text)
  /\ origin' = Retag(book1_text, origin, RefStarts(book1_text, 1),
                      <<0, 0, 0>>, <<0, 0, 0, 0>>)
  /\ pc' = "render"
  /\ UNCHANGED <<inputs, cache_file, fault, metadata, book1, books, done,
                 cite_filenames, todo, output, loader, hits>>

\* the header of lines 245-252, for coauthors in the order list() gave them
Header(title, first_author, coauthors) ==
  [ title |-> title,
    first_author |-> first_author,
    others |-> Len(coauthors),
    names |-> Join(SubSeq(coauthors, 1, Len(coauthors) - 1), <<",", " ">>),
    last |-> coauthors[Len(coauthors)] ]

\* main, lines 232-267
Render ==
  /\ pc = "render"
  /\ IF book1.filename \notin DOMAIN metadata
     THEN Raise("KeyError") /\ UNCHANGED output
     ELSE LET row == metadata[book1.filename]
              title == row["Title"]
              first_author ==
                Strip(row["Author-FN"]) \o <<" ">> \o Strip(row["Author-LN"])
              cites == make_cites(cite_filenames, metadata)
          IN \E coauthors \in Orders(get_coauthors(cite_filenames, metadata)) :
               IF Len(coauthors) = 0
               THEN \* coauthors[-1] of an empty list, after open() made the file
                    Raise("IndexError") /\ output' = Some(<<>>)
               ELSE /\ output' = Some(<<Header(title, first_author, coauthors),
                                        book1_text, cites>>)
                    /\ pc' = "done"
                    /\ UNCHANGED fault
  /\ UNCHANGED <<inputs, cache_file, metadata, book1, books, book1_text, done,
                 cite_filenames, todo, loader, hits, origin>>

Next == Open \/ LoadBooks \/ ReadText \/ ProcessWord \/ Convert \/ Render

Spec == Init /\ [][Next]_vars

\* ------------------------------------------------------- properties ----
\* the primary text as read from disk
Original == infile_content.text

\* the annotation loop has run out of words; Convert has not run yet
AfterLoop == pc = "citify" /\ todo = {}

\* main got past line 230
Converted == pc \in {"render", "done"} \/ fault \in {"KeyError", "IndexError"}

\* the places of word in the primary text as read
Occurrences(word) ==
  { s \in TokenSpans(Original) : Lower(SubSeq(Original, s[1], s[2])) = word }

\* where character k of the text as read is in book1_text now, 0 when it is gone
PlaceOf(k) ==
  IF \E p \in 1..Len(origin) : origin[p] = k
  THEN CHOOSE p \in 1..Len(origin) : origin[p] = k
  ELSE 0

\* the inserted characters that follow position p of book1_text
InsertedAfter(p) ==
  LET stops == { q \in (p + 1)..Len(origin) : origin[q] # 0 }
      last == IF stops = {} THEN Len(origin)
              ELSE (CHOOSE q \in stops : \A r \in stops : q <= r) - 1
  IN SubSeq(book1_text, p + 1, last)

\* the inserted characters that follow the occurrence s
Carried(s) == InsertedAfter(PlaceOf(s[2]))

\* the occurrence s stands in book1_text as it was read, nothing inserted in
\* it and nothing attached to it
Untouched(s) ==
  LET p == PlaceOf(s[1])
      n == s[2] - s[1]
  IN /\ p > 0
     /\ p + n <= Len(origin)
     /\ \A k \in 0..n : origin[p + k] = s[1] + k /\ book1_text[p + k] = Original[s[1] + k]
     /\ (p + n = Len(origin) \/ origin[p + n + 1] # 0)

InCorpus(word) == \E i \in 1..Len(books) : word \in books[i].set

\* the marker REF<n>REF stands inserted somewhere in book1_text
HasMarker(n) ==
  \E p \in 1..Len(origin) :
    /\ p + Len(Marker(n)) - 1 <= Len(origin)
    /\ SubSeq(book1_text, p, p + Len(Marker(n)) - 1) = Marker(n)
    /\ \A q \in p..(p + Len(Marker(n)) - 1) : origin[q] = 0

\* C1: after the annotation loop every word of the primary document without
\* "*" is either unmarked at every occurrence and in no corpus document, or
\* carries at every occurrence one and the same citation number, whose entry
\* in the citation list names a corpus document that holds the word.
C1_EveryWordCitedOnce ==
  AfterLoop =>
    \A word \in book1.set :
      ~Contains(word, "*") =>
        \/ /\ \A s \in Occurrences(word) : Carried(s) = <<>>
           /\ ~InCorpus(word)
        \/ \E n \in 1..Len(cite_filenames) :
             /\ \A s \in Occurrences(word) : Carried(s) = Marker(n)
             /\ \E i \in 1..Len(books) :
                  books[i].filename = cite_filenames[n] /\ word \in books[i].set

\* C7: a word of the primary document that no corpus document holds stands
\* in the output at every occurrence as it was read, with no marker attached
\* to it or inserted in it.
C7_UncitedWordUntouched ==
  pc \in {"render", "done"} =>
    \A word \in book1.set :
      ~InCorpus(word) => \A s \in Occurrences(word) : Untouched(s)

\* C10: every entry of the final citation list has a marker with its number
\* in the annotated text, and every marker that was written carries a number
\* of the list.
C10_EveryCiteHasMarker ==
  AfterLoop =>
    /\ \A k \in 1..Len(cite_filenames) : HasMarker(k)
    /\ \A h \in 1..Len(hits) : hits[h].number \in 1..Len(cite_filenames)

\* the first occurrences of the elements of seq, in order
RECURSIVE FirstSeen(_)
FirstSeen(seq) ==
  IF Len(seq) = 0 THEN <<>>
  ELSE LET front == FirstSeen(SubSeq(seq, 1, Len(seq) - 1))
           x == seq[Len(seq)]
       IN IF \E k \in 1..Len(front) : front[k] = x THEN front ELSE Append(front, x)

NoDuplicates(seq) == \A i, j \in 1..Len(seq) : seq[i] = seq[j] => i = j

C2_Numbering ==
  /\ NoDuplicates(cite_filenames)
  /\ FirstSeen([h \in 1..Len(hits) |-> hits[h].filename]) = cite_filenames
  /\ \A h \in 1..Len(hits) :
       /\ hits[h].number \in 1..Len(cite_filenames)
       /\ cite_filenames[hits[h].number] = hits[h].filename

C2_AppendOnly ==
  /\ IsPrefix(cite_filenames, cite_filenames')
  /\ Len(cite_filenames') <= Len(cite_filenames) + 1

\* C2: the citation list never holds a filename twice, only grows at its end,
\* holds the k-th distinct filename found at position k, and the number
\* written for a match is the position of that book's filename in it.
C2_DenseOrderedCitations == []C2_Numbering /\ [][C2_AppendOnly]_vars

\* a match in the first book cited, after a second book was cited
C2_Witness ==
  /\ Len(cite_filenames) = 2
  /\ \E g, m, h \in 1..Len(hits) :
       /\ g < m /\ m < h
       /\ hits[g].filename = hits[h].filename
       /\ hits[m].filename # hits[h].filename
       /\ hits[h].number = 1

\* C3: with --cache and a cache file on disk, the corpus is the cached list:
\* no scan of the glob, no sampling, no rewrite of the cache file.
C3_CacheOverrides ==
  [][(pc = "books" /\ use_cache /\ cache_file.present) =>
       /\ books' = cache_file.data
       /\ cache_file' = cache_file
       /\ loader' = [scanned |-> FALSE, sampled |-> FALSE, saved |-> FALSE]]_vars

\* C4: a file that cannot be decoded never ends the run: its content counts
\* as empty.
C4_DecodeRecovered ==
  /\ fault # "UnicodeDecodeError"
  /\ (pc = "citify" /\ ~infile_content.ok) => book1_text = <<>>

\* the reference make_cites is to give at position k for a filename without
\* a row in the master list
Placeholder(k, id) ==
  <<"<r>">> \o Str(k) \o <<"</r>", " ", "[", "Unknown author", "]", ",", " ",
    "<i>", "[", id, "]", "</i>">>

\* C5: a cited filename without a row in the master list raises no fault:
\* its reference has the placeholder author and "[filename]" as title, the
\* placeholder is among the co-authors, and there is one reference for each
\* entry of the citation list, in its order, numbered from 1.
C5_MissingMetadata ==
  /\ fault = "KeyError" => book1.filename \notin DOMAIN metadata
  /\ pc = "done" =>
       LET header == output.list[1]
           cites == output.list[3]
       IN /\ Len(cites) = Len(cite_filenames)
          /\ \A k \in 1..Len(cites) :
               /\ SubSeq(cites[k], 1, 2 + Len(Str(k))) = <<"<r>">> \o Str(k) \o <<"</r>">>
               /\ cite_filenames[k] \notin DOMAIN metadata =>
                    /\ cites[k] = Placeholder(k, cite_filenames[k])
                    /\ Contains(header.names \o header.last, "Unknown author")

\* a finished run that cites one book with a row and one without
C5_Witness ==
  /\ pc = "done"
  /\ \E j, k \in 1..Len(cite_filenames) :
       /\ cite_filenames[j] \in DOMAIN metadata
       /\ cite_filenames[k] \notin DOMAIN metadata

\* the books the loop can find word in first, over the outcomes of the shuffle
Sources(word) ==
  { shuffled[FirstWith(shuffled, word)].fullpath :
      shuffled \in { sh \in Shuffle(books) : FirstWith(sh, word) > 0 } }

\* C6: the book cited for a word is a corpus book that holds the word, each
\* such book can be the one cited, and a word is cited exactly when some
\* corpus book holds it, whatever the shuffles give.
C6_SameSources ==
  /\ \A h \in 1..Len(hits) :
       \E i \in 1..Len(books) :
         books[i].fullpath = hits[h].fullpath /\ Lower(hits[h].word) \in books[i].set
  /\ \A word \in done : (\E h \in 1..Len(hits) : hits[h].word = word) <=> InCorpus(word)
  /\ pc = "citify" =>
       \A word \in todo :
         ~Contains(word, "*") =>
           \A i \in 1..Len(books) :
             word \in books[i].set => books[i].fullpath \in Sources(word)

\* a word that two books hold is cited from the one that came second from disk
C6_Witness ==
  /\ \E h \in 1..Len(hits) :
       /\ hits[h].fullpath = <<"PG", "d0", "y.txt">>
       /\ hits[h].word = <<"a">>
  /\ \E i \in 1..Len(books) : books[i].fullpath = <<"PG", "d0", "x.txt">>

\* text holds REF, digits, REF somewhere
HasRawSentinel(text) ==
  \E i \in 1..Len(text) : \E n \in 1..Len(text) :
    /\ i + n + 5 <= Len(text)
    /\ SubSeq(text, i, i + 2) = <<"R", "E", "F">>
    /\ \A k \in (i + 3)..(i + 2 + n) : text[k] \in Digits
    /\ SubSeq(text, i + 3 + n, i + 5 + n) = <<"R", "E", "F">>

\* C8: once the markers are turned into tags, no REF<digits>REF is left in
\* the text, nor in the body that is written out.
C8_NoRawSentinel ==
  /\ Converted => ~HasRawSentinel(book1_text)
  /\ pc = "done" => ~HasRawSentinel(output.list[2])

\* a finished run with two tags, one of them right after a word that ends
\* like a marker begins
C8_Witness ==
  /\ pc = "done"
  /\ Len(hits) >= 2
  /\ \E h \in 1..Len(hits) : hits[h].word = <<"r", "e", "f", "1">>
  /\ Contains(output.list[2], "<")

\* the glob of --inspec matches no file
NoFiles == recursive_find(inspec) = {<<>>}

\* C9 as stated: when the glob matches no file the run does not complete.
C9_EmptyGlobFaults == NoFiles => pc # "done"

\* C9: a run whose corpus is empty does not complete: it goes on to a fault.
C9_EmptyCorpusFaults ==
  (pc \notin {"start", "books"} /\ Len(books) = 0) =>
    /\ pc # "done"
    /\ pc = "fault" \/ ENABLED Next

\* the glob matched nothing and the run ended at coauthors[-1]
C9_Witness ==
  /\ NoFiles
  /\ loader.scanned
  /\ Len(books) = 0
  /\ fault = "IndexError"
====
